---- MODULE Spec2Model ----
(***************************************************************************)
(* Model of app.py: a Flask application that scores token addresses, keeps *)
(* every scored observation in a CSV file held in a GitHub repository,     *)
(* labels observations that are LABEL_AFTER_DAYS old by re-fetching their  *)
(* market cap, trains a classifier on the labeled rows and reports a       *)
(* backtest correlation.                                                   *)
(*                                                                         *)
(* Units.  The clock counts half days (12 h), so timedelta.days is         *)
(* delta \div 2.  Market caps are whole numbers.  The payoff table and     *)
(* ml_confidence are kept in hundredths (0.2 is 20, 30 is 3000).           *)
(* predict_proba is a nondeterministic distribution over the classes the   *)
(* classifier was trained on, in steps of one half.                        *)
(***************************************************************************)
EXTENDS Integers, Sequences, FiniteSets, TLC

\* ------------------------------------------------------------------ bounds
MaxReqs == 2        \* requests handled in one behaviour
MaxLines == 1       \* lines in the textarea of one POST
MaxClock == 6       \* last clock value (half days)
StartClock == 5     \* clock at start; the stored rows were scanned at 0

\* --------------------------------------------------------- program constants
LABEL_AFTER_DAYS == 3
MIN_TRAIN_ROWS == 50

\* pandas missing value (what read_csv yields for an empty field), and the
\* empty string "" that index() writes into the placeholders of a new row.
\* Numeric columns hold naturals, so the two markers are negative numbers.
NaN == -1
EMPTY == -2
NaNStr == "NaN"
EMPTYSTR == ""

Classes == <<"RUG", "FLAT", "2X", "5X", "20X">>
ClassSet == {Classes[k] : k \in 1..Len(Classes)}

\* MULT = {"RUG":0.2,"FLAT":1,"2X":3,"5X":10,"20X":30}, in hundredths
MULT == [c \in {"RUG", "FLAT", "2X", "5X", "20X"} |->
           CASE c = "RUG" -> 20 [] c = "FLAT" -> 100 [] c = "2X" -> 300
             [] c = "5X" -> 1000 [] c = "20X" -> 3000]

\* ------------------------------------------------------------ input domains
Space == " "
Lines == {<<"a">>, <<Space, "a">>}     \* textarea lines (sequences of characters)
MarketCaps == {0, 10}                   \* fdv values the market endpoint returns
Liquidities == {0, 3000}                \* liquidity.usd values it returns

Reqs == 1..MaxReqs
Methods == {"GET", "POST", "BACKTEST"}

VARIABLES
  storeExists,   \* does the CSV file exist in the repository
  storeRows,     \* its content: the sequence of CSV rows
  clock,         \* utcnow(), in half days
  req,           \* the requests: position, local DataFrame, sha, model, ...
  fetchLog       \* the fetch_dex calls issued by auto_label

vars == <<storeExists, storeRows, clock, req, fetchLog>>

\* ------------------------------------------------------------ pure helpers
\* pd.notna on a label cell and on a numeric cell
notna(x) == x # NaNStr
notnaNum(x) == x # NaN

\* DataFrame.to_csv: NaN and "" are both written as an empty field
to_csv_row(r) ==
  [r EXCEPT !.label_outcome = IF @ = NaNStr THEN EMPTYSTR ELSE @,
            !.mc_after_3d = IF @ = NaN THEN EMPTY ELSE @,
            !.ml_predicted_mc = IF @ = NaN THEN EMPTY ELSE @,
            !.ml_confidence = IF @ = NaN THEN EMPTY ELSE @]
to_csv(df) == SubSeq([i \in 1..Len(df) |-> to_csv_row(df[i])], 1, Len(df))

\* pd.read_csv: an empty field is read as NaN
read_csv_row(r) ==
  [r EXCEPT !.label_outcome = IF @ = EMPTYSTR THEN NaNStr ELSE @,
            !.mc_after_3d = IF @ = EMPTY THEN NaN ELSE @,
            !.ml_predicted_mc = IF @ = EMPTY THEN NaN ELSE @,
            !.ml_confidence = IF @ = EMPTY THEN NaN ELSE @]
read_csv(rows) == SubSeq([i \in 1..Len(rows) |-> read_csv_row(rows[i])], 1, Len(rows))

\* the blob sha GitHub reports for a content: equal exactly for equal contents
NoSha == [some |-> FALSE, blob |-> <<>>]
git_blob_sha(rows) == [some |-> TRUE, blob |-> rows]
CurrentSha == IF storeExists THEN git_blob_sha(storeRows) ELSE NoSha

\* timedelta.days with the clock in half days
days(delta) == delta \div 2

\* str.strip(): drop leading and trailing blanks
RECURSIVE lstrip(_)
lstrip(s) == IF s # <<>> /\ Head(s) = Space THEN lstrip(Tail(s)) ELSE s
RECURSIVE rstrip(_)
rstrip(s) == IF s # <<>> /\ s[Len(s)] = Space THEN rstrip(SubSeq(s, 1, Len(s) - 1)) ELSE s
strip(s) == rstrip(lstrip(s))

\* ---------------------------------------------------------------- fetch_dex
\* What one call of fetch_dex can produce: None (no pairs), an exception
\* (timeout, connection error, non-JSON body), or a snapshot with mc = fdv.
FetchNone == [kind |-> "none", mc |-> 0, liq |-> 0]
FetchErr == [kind |-> "err", mc |-> 0, liq |-> 0]
Snapshot(m, l) == [kind |-> "ok", mc |-> m, liq |-> l]
\* a snapshot for auto_label, which reads d["mc"] alone
FetchOk(m) == Snapshot(m, 3000)
FetchResults(MCs) == {FetchNone, FetchErr} \cup {FetchOk(m) : m \in MCs}
\* what fetch_dex can produce for a line being scored: no pairs, an exception,
\* a pair without fdv and liquidity, a pair with both
ScanResults ==
  {FetchNone, FetchErr}
    \cup {Snapshot(p[1], p[2]) :
            p \in {q \in MarketCaps \X Liquidities : (q[1] = 0) <=> (q[2] = 0)}}

\* ---------------------------------------------------------------- auto_label
\* ratio = mc2 / r["market_cap"] if r["market_cap"] else 0, kept as the
\* fraction <<numerator, denominator>>; no division when market_cap is 0
ratio_floor_one(mc2, market_cap) == <<mc2, IF market_cap > 1 THEN market_cap ELSE 1>>
ratio(mc2, market_cap) == IF market_cap # 0 THEN <<mc2, market_cap>> ELSE <<0, 1>>

\* ratio < tenths / 10
ratio_lt(q, tenths) == q[1] * 10 < tenths * q[2]

outcome_shifted(q) ==
  IF ratio_lt(q, 5) THEN "FLAT"
  ELSE IF ratio_lt(q, 15) THEN "RUG"
  ELSE IF ratio_lt(q, 50) THEN "2X"
  ELSE IF ratio_lt(q, 200) THEN "5X"
  ELSE "20X"
\* the buckets with the fourth class written "10X"
outcome_renamed(q) ==
  IF ratio_lt(q, 5) THEN "RUG"
  ELSE IF ratio_lt(q, 15) THEN "FLAT"
  ELSE IF ratio_lt(q, 50) THEN "2X"
  ELSE IF ratio_lt(q, 200) THEN "10X"
  ELSE "20X"
\* the if / elif chain of auto_label
outcome(q) ==
  IF ratio_lt(q, 5) THEN "RUG"
  ELSE IF ratio_lt(q, 15) THEN "FLAT"
  ELSE IF ratio_lt(q, 50) THEN "2X"
  ELSE IF ratio_lt(q, 200) THEN "5X"
  ELSE "20X"

too_young_off_by_one(now, t) == days(now - t) + 1 < LABEL_AFTER_DAYS
\* (now - t).days < LABEL_AFTER_DAYS
too_young(now, t) == days(now - t) < LABEL_AFTER_DAYS

\* the rows for which the loop of auto_label reaches fetch_dex
Eligible(df, now) ==
  {i \in 1..Len(df) : ~notna(df[i].label_outcome) /\ ~too_young(now, df[i].timestamp)}

\* The loop of auto_label from row i on.  fetch[i] is what fetch_dex returns
\* for row i.  Result: the DataFrame, the rows fetch_dex was called for, and
\* whether fetch_dex raised (the exception leaves the loop and the handler).
RECURSIVE auto_label_from(_, _, _, _)
auto_label_from(df, i, now, fetch) ==
  IF i > Len(df) THEN [df |-> df, fetched |-> {}, raised |-> FALSE]
  ELSE IF notna(df[i].label_outcome) THEN auto_label_from(df, i + 1, now, fetch)
  ELSE IF too_young(now, df[i].timestamp) THEN auto_label_from(df, i + 1, now, fetch)
  ELSE LET d == fetch[i] IN
    IF d.kind = "err" THEN [df |-> df, fetched |-> {i}, raised |-> TRUE]
    ELSE LET mc2 == IF d.kind = "ok" THEN d.mc ELSE 0
             out == outcome(ratio(mc2, df[i].market_cap))
             df2 == [df EXCEPT ![i].label_outcome = out, ![i].mc_after_3d = mc2]
             rest == auto_label_from(df2, i + 1, now, fetch)
         IN [rest EXCEPT !.fetched = @ \cup {i}]

\* the sweep leaving mc_after_3d unset when fetch_dex finds no pair
auto_label_label_only(df, now, fetch) ==
  LET res == auto_label_from(df, 1, now, fetch)
      keep(i) == IF i \in res.fetched /\ fetch[i].kind = "none"
                 THEN [res.df[i] EXCEPT !.mc_after_3d = df[i].mc_after_3d]
                 ELSE res.df[i]
  IN [res EXCEPT !.df = SubSeq([i \in 1..Len(df) |-> keep(i)], 1, Len(df))]
auto_label(df, now, fetch) == auto_label_from(df, 1, now, fetch)

\* ------------------------------------------------------- train_ml / ml_predict
NoModel == [trained |-> FALSE, classes |-> {}]

\* len(df.dropna(subset=["label_outcome"]))
count_labeled(df) == Cardinality({i \in 1..Len(df) : notna(df[i].label_outcome)})

train_ml_one_short(df) ==
  IF count_labeled(df) < MIN_TRAIN_ROWS - 1 THEN NoModel
  ELSE [trained |-> TRUE,
        classes |-> {df[i].label_outcome : i \in {j \in 1..Len(df) : notna(df[j].label_outcome)}}]
\* None below MIN_TRAIN_ROWS labeled rows, else a classifier whose classes_
\* are the labels of the training rows
train_ml(df) ==
  IF count_labeled(df) < MIN_TRAIN_ROWS THEN NoModel
  ELSE [trained |-> TRUE,
        classes |-> {df[i].label_outcome : i \in {j \in 1..Len(df) : notna(df[j].label_outcome)}}]

\* predict_proba: the distributions over classes_ in halves (weights sum to 2)
RECURSIVE weight_sum(_, _)
weight_sum(w, S) ==
  IF S = {} THEN 0 ELSE LET c == CHOOSE x \in S : TRUE IN w[c] + weight_sum(w, S \ {c})
ProbDists(classes) == {w \in [classes -> 0..2] : weight_sum(w, classes) = 2}

\* ev = sum(probs[k]*MULT[k] for k in probs), in hundredths
RECURSIVE ev_sum(_, _)
ev_sum(w, S) ==
  IF S = {} THEN 0
  ELSE LET c == CHOOSE x \in S : TRUE IN w[c] * MULT[c] + ev_sum(w, S \ {c})
expected_value(w) == ev_sum(w, DOMAIN w) \div 2

\* ml_predict: <<predicted market cap, confidence in hundredths>>
ml_predict(model, market_cap, probs) ==
  IF ~model.trained THEN <<market_cap, 0>>
  ELSE LET ev == expected_value(probs) IN <<(market_cap * ev) \div 100, ev>>

\* ------------------------------------------------------------------- state
\* A row as index() builds it (lines 243-268) once ml_predict has filled in
\* the prediction: the outcome placeholders are "".
new_row(now, ca, d, pred) ==
  [timestamp |-> now, ca |-> ca, market_cap |-> d.mc, liquidity |-> d.liq,
   label_outcome |-> EMPTYSTR, mc_after_3d |-> EMPTY,
   ml_predicted_mc |-> pred[1], ml_confidence |-> pred[2]]

IdleReq ==
  [pc |-> "idle", method |-> "GET", cas |-> <<>>, line |-> 1,
   df |-> <<>>, nloaded |-> 0, sha |-> NoSha, model |-> NoModel,
   now |-> 0, refetch |-> {}, err |-> "", sc |-> 0, lb |-> 0, samples |-> 0,
   answer |-> ""]

\* The file as earlier runs of the program left it: n rows scanned with no
\* classifier LABEL_AFTER_DAYS before time 0 and labeled by auto_label since,
\* then `tail`, unlabeled rows scanned at time 0.  The rows are for the
\* address "b"; one file holds a row whose line was typed with a leading blank.
OldAfter == <<0, 10>>
OldLabeledRow(i) ==
  LET mc2 == OldAfter[((i - 1) % Len(OldAfter)) + 1]
      d == FetchOk(10)
      r == new_row(0 - 2 * LABEL_AFTER_DAYS, <<"b">>, d, ml_predict(NoModel, d.mc, <<>>))
  IN to_csv_row([r EXCEPT !.label_outcome = outcome(ratio(mc2, d.mc)), !.mc_after_3d = mc2])
OldRowTyped(ca, m) ==
  to_csv_row(new_row(0, ca, FetchOk(m), ml_predict(NoModel, m, <<>>)))
OldUnlabeledRow(m) == OldRowTyped(<<"b">>, m)
OldStores ==
  {[i \in 1..n |-> OldLabeledRow(i)] \o tail :
     n \in {0, MIN_TRAIN_ROWS - 1},
     tail \in {<<>>} \cup {<<OldUnlabeledRow(m)>> : m \in {0, 10}}}
  \cup {<<OldRowTyped(<<Space, "b">>, 10)>>}

Init ==
  /\ storeExists \in BOOLEAN
  /\ storeRows \in (IF storeExists THEN OldStores ELSE {<<>>})
  /\ clock = StartClock
  /\ req = [r \in Reqs |-> IdleReq]
  /\ fetchLog = {}

\* ---------------------------------------------------------------- load_csv
\* requests.get on the contents API: 404 gives an empty frame and sha None,
\* otherwise the decoded file and its sha
load_csv == IF storeExists THEN <<read_csv(storeRows), git_blob_sha(storeRows)>>
            ELSE <<(<<>>), NoSha>>

\* ---------------------------------------------------------------- save_csv
put_accepts_any(sha) == TRUE
\* the contents API accepts a PUT only when the sha sent is the sha of the
\* file it is replacing (none when the file is being created); otherwise it
\* answers 409 / 422 and save_csv raises
put_accepts(sha) == sha = CurrentSha

\* Body of the textarea: cas_text.splitlines()
Bodies == UNION {[1..n -> Lines] : n \in 0..MaxLines}

\* requests are numbered in the order they arrive
Arrives(r) == req[r].pc = "idle" /\ (IF r = 1 THEN TRUE ELSE req[r - 1].pc # "idle")

\* index(), line 227: load_csv
Load(r, m, cas) ==
  /\ Arrives(r)
  /\ m \in {"GET", "POST"}
  /\ req' = [req EXCEPT ![r] = [@ EXCEPT !.pc = "sweep", !.method = m, !.cas = cas,
                                        !.df = load_csv[1], !.nloaded = Len(load_csv[1]),
                                        !.sha = load_csv[2]]]
  /\ UNCHANGED <<storeExists, storeRows, clock, fetchLog>>

\* load_csv when the contents API answers neither 200 nor 404: the body has
\* no "content" and load_csv raises, in index() or in backtest() (a POST
\* fails here exactly as a GET does)
LoadFail(r, m) ==
  /\ Arrives(r)
  /\ req' = [req EXCEPT ![r] = [@ EXCEPT !.pc = "failed", !.method = m, !.err = "load"]]
  /\ UNCHANGED <<storeExists, storeRows, clock, fetchLog>>

\* index(), lines 228-229: auto_label then train_ml; a GET then renders
Sweep(r, MCs) ==
  /\ req[r].pc = "sweep"
  /\ \E fetch \in [Eligible(req[r].df, clock) -> FetchResults(MCs)] :
       LET res == auto_label(req[r].df, clock, fetch)
           calls == {[ca |-> req[r].df[i].ca, timestamp |-> req[r].df[i].timestamp,
                      now |-> clock] : i \in res.fetched}
           seen == {[i |-> i, kind |-> fetch[i].kind, mc |-> fetch[i].mc] : i \in res.fetched}
       IN /\ fetchLog' = fetchLog \cup calls
          /\ req' = [req EXCEPT ![r] =
               IF res.raised
               THEN [@ EXCEPT !.pc = "failed", !.err = "fetch", !.df = res.df,
                              !.now = clock, !.refetch = seen]
               ELSE [@ EXCEPT !.pc = IF req[r].method = "POST" THEN "score" ELSE "done",
                              !.df = res.df, !.now = clock, !.refetch = seen,
                              !.model = train_ml(res.df),
                              !.sc = Len(res.df), !.lb = count_labeled(res.df)]]
  /\ UNCHANGED <<storeExists, storeRows, clock>>

\* index(), lines 236-286: one line of the textarea.  fetch_dex is called
\* with strip(ca); the row keeps the line ca as typed.
ScoreLine(r) ==
  /\ req[r].pc = "score"
  /\ req[r].line <= Len(req[r].cas)
  /\ LET ca == req[r].cas[req[r].line] IN
     \E d \in ScanResults :
       \E probs \in (IF req[r].model.trained THEN ProbDists(req[r].model.classes) ELSE {<<>>}) :
         req' = [req EXCEPT ![r] =
           CASE d.kind = "err" -> [@ EXCEPT !.pc = "failed", !.err = "fetch"]
             [] d.kind = "none" -> [@ EXCEPT !.line = @ + 1]
             [] OTHER -> [@ EXCEPT !.line = @ + 1,
                            !.df = Append(@, new_row(clock, ca, d,
                                                 ml_predict(req[r].model, d.mc, probs)))]]
  /\ UNCHANGED <<storeExists, storeRows, clock, fetchLog>>

\* index(), line 288 and lines 290-296: save_csv accepted, then render
SaveOk(r) ==
  /\ req[r].pc = "score"
  /\ req[r].line > Len(req[r].cas)
  /\ put_accepts(req[r].sha)
  /\ storeExists' = TRUE
  /\ storeRows' = to_csv(req[r].df)
  /\ req' = [req EXCEPT ![r] = [@ EXCEPT !.pc = "done", !.sc = Len(req[r].df),
                                        !.lb = count_labeled(req[r].df)]]
  /\ UNCHANGED <<clock, fetchLog>>

\* save_csv: the PUT is refused because the file changed since load_csv
SaveConflict(r) ==
  /\ req[r].pc = "score"
  /\ req[r].line > Len(req[r].cas)
  /\ ~put_accepts(req[r].sha)
  /\ req' = [req EXCEPT ![r] = [@ EXCEPT !.pc = "failed", !.err = "conflict"]]
  /\ UNCHANGED <<storeExists, storeRows, clock, fetchLog>>

\* a failing save that has already written all rows but the last
SaveRejectedTruncated(r) ==
  /\ req[r].pc = "score"
  /\ req[r].line > Len(req[r].cas)
  /\ req' = [req EXCEPT ![r] = [@ EXCEPT !.pc = "failed", !.err = "rejected"]]
  /\ storeExists' = TRUE
  /\ storeRows' = to_csv(SubSeq(req[r].df, 1, Len(req[r].df) - 1))
  /\ UNCHANGED <<clock, fetchLog>>
\* save_csv: the PUT fails for another reason (rate limit, 5xx, bad token)
SaveRejected(r) ==
  /\ req[r].pc = "score"
  /\ req[r].line > Len(req[r].cas)
  /\ req' = [req EXCEPT ![r] = [@ EXCEPT !.pc = "failed", !.err = "rejected"]]
  /\ UNCHANGED <<storeExists, storeRows, clock, fetchLog>>

\* save_csv: GitHub commits the PUT but requests.put raises before the
\* answer arrives (connection reset; the call has no timeout and no handler)
SaveLost(r) ==
  /\ req[r].pc = "score"
  /\ req[r].line > Len(req[r].cas)
  /\ put_accepts(req[r].sha)
  /\ storeExists' = TRUE
  /\ storeRows' = to_csv(req[r].df)
  /\ req' = [req EXCEPT ![r] = [@ EXCEPT !.pc = "failed", !.err = "lost"]]
  /\ UNCHANGED <<clock, fetchLog>>

\* backtest(): load_csv, the rows with both values, the answer
bt_sample(df) ==
  {i \in 1..Len(df) : notnaNum(df[i].mc_after_3d) /\ notnaNum(df[i].ml_predicted_mc)}
\* if len(bt) < 20: "Not enough data", else the correlation page
bt_answer(n) == IF n < 20 THEN "insufficient" ELSE "correlation"
\* a backtest that writes the frame it kept back to the file
BacktestSavesSample(r) ==
  /\ Arrives(r)
  /\ req' = [req EXCEPT ![r] = [@ EXCEPT !.pc = "done", !.method = "BACKTEST",
                                        !.df = load_csv[1], !.nloaded = Len(load_csv[1]),
                                        !.sha = load_csv[2],
                                        !.samples = Cardinality(bt_sample(load_csv[1])),
                                        !.answer = bt_answer(Cardinality(bt_sample(load_csv[1])))]]
  /\ storeExists' = TRUE
  /\ storeRows' = to_csv(SelectSeq(load_csv[1],
                       LAMBDA row : notnaNum(row.mc_after_3d) /\ notnaNum(row.ml_predicted_mc)))
  /\ UNCHANGED <<clock, fetchLog>>
Backtest(r) ==
  /\ Arrives(r)
  /\ req' = [req EXCEPT ![r] = [@ EXCEPT !.pc = "done", !.method = "BACKTEST",
                                        !.df = load_csv[1], !.nloaded = Len(load_csv[1]),
                                        !.sha = load_csv[2],
                                        !.samples = Cardinality(bt_sample(load_csv[1])),
                                        !.answer = bt_answer(Cardinality(bt_sample(load_csv[1])))]]
  /\ UNCHANGED <<storeExists, storeRows, clock, fetchLog>>

\* time passes
Tick ==
  /\ clock < MaxClock
  /\ clock' = clock + 1
  /\ UNCHANGED <<storeExists, storeRows, req, fetchLog>>

Next ==
  \/ \E r \in Reqs : \E m \in {"GET", "POST"} :
       \E cas \in (IF m = "POST" THEN Bodies ELSE {<<>>}) : Load(r, m, cas)
  \/ \E r \in Reqs : \E m \in Methods \ {"POST"} : LoadFail(r, m)
  \/ \E r \in Reqs : Sweep(r, MarketCaps)
  \/ \E r \in Reqs : ScoreLine(r)
  \/ \E r \in Reqs : SaveOk(r)
  \/ \E r \in Reqs : SaveConflict(r)
  \/ \E r \in Reqs : SaveRejected(r)
  \/ \E r \in Reqs : SaveLost(r)
  \/ \E r \in Reqs : Backtest(r)
  \/ Tick

Spec == Init /\ [][Next]_vars

\* ------------------------------------------------ labeling alone, wide values
\* The labeling rule on its own: a file of two unlabeled rows that have just
\* reached LABEL_AFTER_DAYS, scan-time and re-fetched market caps drawn from
\* sets that hit every bucket and every boundary, one GET that sweeps them.
ScanCaps == {1, 2, 10}
AfterCaps == {0, 1, 2, 3, 4, 5, 15, 20, 40, 200}

InitLabel ==
  /\ storeExists = TRUE
  /\ storeRows \in {<<OldUnlabeledRow(a), OldUnlabeledRow(b)>> : a, b \in ScanCaps}
  /\ clock = 2 * LABEL_AFTER_DAYS
  /\ req = [r \in Reqs |-> IdleReq]
  /\ fetchLog = {}

NextLabel ==
  \/ Load(1, "GET", <<>>)
  \/ Sweep(1, AfterCaps)

SpecLabel == InitLabel /\ [][NextLabel]_vars

\* ------------------------------------------------------------------ claims
\* the request has been through auto_label (it may have raised there)
Swept(r) == req[r].method # "BACKTEST" /\ req[r].pc \in {"score", "done", "failed"}
            /\ req[r].err # "load"
Finished(r) == req[r].pc \in {"done", "failed"}
\* the rows the request appended to its DataFrame
Scored(r) == (req[r].nloaded + 1)..Len(req[r].df)
\* the DataFrame as the request loaded it and auto_label left it
View(r) == SubSeq(req[r].df, 1, req[r].nloaded)
Labeled(row) == row.label_outcome \notin {EMPTYSTR, NaNStr}
AllFrames == {storeRows} \cup {req[r].df : r \in Reqs}

\* C1: once a row of the stored file has a label, no later state of the file
\* changes that row's label_outcome or mc_after_3d.
C1_WriteOnce ==
  [][\A i \in 1..Len(storeRows) :
       Labeled(storeRows[i]) =>
         /\ i <= Len(storeRows')
         /\ storeRows'[i].label_outcome = storeRows[i].label_outcome
         /\ storeRows'[i].mc_after_3d = storeRows[i].mc_after_3d]_vars

\* a POST labeled a row and saved it, and a later POST that loaded the labeled
\* row ran its own sweep and saved as well
C1_Witness ==
  \E r1, r2 \in Reqs :
    /\ r1 # r2
    /\ req[r1].pc = "done" /\ req[r1].method = "POST"
    /\ req[r2].pc = "done" /\ req[r2].method = "POST"
    /\ \E e \in req[r1].refetch :
         /\ e.i <= req[r2].nloaded
         /\ Labeled(req[r2].sha.blob[e.i])
         /\ Labeled(storeRows[e.i])

\* C2: a row younger than LABEL_AFTER_DAYS (the clock counts half days) has
\* no label and no maturity value in the file or in any request's DataFrame,
\* and auto_label has issued no fetch_dex call for a row that young.
C2_YoungNeverLabeled ==
  /\ \A e \in fetchLog : e.now - e.timestamp >= 2 * LABEL_AFTER_DAYS
  /\ \A f \in AllFrames : \A i \in 1..Len(f) :
       clock - f[i].timestamp < 2 * LABEL_AFTER_DAYS =>
         ~Labeled(f[i]) /\ f[i].mc_after_3d \in {EMPTY, NaN}

\* two requests have both swept a frame holding the same young unlabeled row
C2_Witness ==
  \E r1, r2 \in Reqs :
    /\ r1 # r2 /\ Swept(r1) /\ Swept(r2)
    /\ req[r1].pc # "failed" /\ req[r2].pc # "failed"
    /\ \E i \in 1..req[r1].nloaded :
         /\ i <= req[r2].nloaded
         /\ req[r1].now - req[r1].df[i].timestamp < 2 * LABEL_AFTER_DAYS
         /\ ~Labeled(req[r1].df[i]) /\ ~Labeled(req[r2].df[i])

\* C3: when every request has finished, each row scored by a POST that got as
\* far as its save (accepted, or refused because the file had changed) is in
\* the stored file.
C3_NoLostRows ==
  (\A r \in Reqs : Finished(r)) =>
    \A r \in Reqs :
      (req[r].method = "POST" /\ (req[r].pc = "done" \/ req[r].err = "conflict")) =>
        \A k \in Scored(r) : \E j \in 1..Len(storeRows) : storeRows[j] = to_csv_row(req[r].df[k])

\* C4: after a request that ran the sweep has completed, every row its sweep
\* re-fetched successfully is labeled in the stored file.
C4_EligibleLabeledInStore ==
  \A r \in Reqs :
    (req[r].pc = "done" /\ req[r].method \in {"GET", "POST"}) =>
      \A e \in req[r].refetch :
        e.kind = "ok" =>
          /\ e.i <= Len(storeRows)
          /\ Labeled(storeRows[e.i])
          /\ storeRows[e.i].mc_after_3d # EMPTY

\* C5: for a scan-time market cap > 0 the label is one of the five classes,
\* a larger ratio never gets a lower class, and a ratio <= 0.3 gets RUG.
Rank(c) == CHOOSE k \in 1..Len(Classes) : Classes[k] = c
C5_MonotoneBuckets ==
  \A r \in Reqs : \A e1, e2 \in req[r].refetch :
    LET row1 == req[r].df[e1.i]
        row2 == req[r].df[e2.i]
    IN (e1.kind # "err" /\ e2.kind # "err" /\ req[r].pc # "failed") =>
         /\ row1.label_outcome \in ClassSet
         /\ row1.mc_after_3d = e1.mc
         /\ (e1.mc * row2.market_cap <= e2.mc * row1.market_cap) =>
              Rank(row1.label_outcome) <= Rank(row2.label_outcome)
         /\ (10 * e1.mc <= 3 * row1.market_cap) => row1.label_outcome = "RUG"

\* one sweep labeled 2,000 / 10,000 RUG and another row 20X
C5_Witness ==
  \E r \in Reqs : \E e1, e2 \in req[r].refetch :
    /\ req[r].pc = "done"
    /\ e1.mc = 2 /\ req[r].df[e1.i].market_cap = 10 /\ req[r].df[e1.i].label_outcome = "RUG"
    /\ req[r].df[e2.i].label_outcome = "20X"

\* C6: a row whose scan-time market_cap is 0 and that auto_label has labeled
\* is RUG, whatever market cap the re-fetch returned.
C6_ZeroScanValueIsRug ==
  /\ \A r \in Reqs : \A e \in req[r].refetch :
       (e.kind # "err" /\ req[r].df[e.i].market_cap = 0) =>
         req[r].df[e.i].label_outcome = "RUG" /\ req[r].df[e.i].mc_after_3d = e.mc
  /\ \A f \in AllFrames : \A i \in 1..Len(f) :
       (f[i].market_cap = 0 /\ Labeled(f[i])) => f[i].label_outcome = "RUG"

\* a row scanned at market cap 0 was re-fetched at a market cap > 0
C6_Witness ==
  \E r \in Reqs : \E e \in req[r].refetch :
    /\ e.kind = "ok" /\ e.mc > 0
    /\ req[r].df[e.i].market_cap = 0
    /\ req[r].df[e.i].label_outcome = "RUG"

\* C7: a row whose re-fetch failed (no pair returned, or the call raised) is
\* labeled RUG in the DataFrame of the request that re-fetched it.
C7_FailedRefetchIsRug ==
  \A r \in Reqs : \A e \in req[r].refetch :
    e.kind \in {"none", "err"} => req[r].df[e.i].label_outcome = "RUG"

\* C8: a request has a classifier only if its view of the file holds at least
\* MIN_TRAIN_ROWS labeled rows; below that every row it scores, and every row
\* it has saved, has ml_confidence 0.
C8_NoConfidenceWithoutModel ==
  \A r \in Reqs :
    /\ req[r].model.trained => count_labeled(View(r)) >= MIN_TRAIN_ROWS
    /\ (Swept(r) /\ count_labeled(View(r)) < MIN_TRAIN_ROWS) =>
         \A k \in Scored(r) :
           /\ req[r].df[k].ml_confidence = 0
           /\ req[r].pc = "done" => storeRows[k].ml_confidence = 0

\* a POST that saw MIN_TRAIN_ROWS - 1 labeled rows saved a row it scored
C8_Witness ==
  \E r \in Reqs :
    /\ req[r].pc = "done" /\ req[r].method = "POST"
    /\ count_labeled(View(r)) = MIN_TRAIN_ROWS - 1
    /\ Scored(r) # {}
    /\ \A k \in Scored(r) : storeRows[k].ml_confidence = 0

\* C9: a row scored and saved by a request that had no classifier has no
\* number in ml_predicted_mc, so it is not in the backtest sample.
C9_NoPredictionWithoutModel ==
  \A r \in Reqs :
    (req[r].pc = "done" /\ req[r].method = "POST" /\ ~req[r].model.trained) =>
      \A k \in Scored(r) :
        /\ storeRows[k].ml_predicted_mc = EMPTY
        /\ k \notin bt_sample(read_csv(storeRows))

\* C10: of two requests handled at the same clock value at most one runs
\* auto_label and train_ml.
C10_SweepOncePerInterval ==
  \A r1, r2 \in Reqs :
    (r1 # r2 /\ Swept(r1) /\ Swept(r2)) => req[r1].now # req[r2].now

\* C11: no request ends in an exception that escapes its handler: whatever the
\* market endpoint and the file store answer, every request completes.
C11_NoUnhandledException ==
  \A r \in Reqs : req[r].pc # "failed"

\* the fields of a stored row that the label sweep does not write
SameObservation(a, b) ==
  /\ a.timestamp = b.timestamp
  /\ a.ca = b.ca
  /\ a.market_cap = b.market_cap
  /\ a.liquidity = b.liquidity
  /\ a.ml_predicted_mc = b.ml_predicted_mc
  /\ a.ml_confidence = b.ml_confidence

C13_ClassesHaveMultipliers ==
  /\ \A f \in AllFrames : \A i \in 1..Len(f) :
       Labeled(f[i]) => f[i].label_outcome \in ClassSet \cap DOMAIN MULT
  /\ \A m \in ScanCaps \cup {0} : \A m2 \in AfterCaps :
       outcome(ratio(m2, m)) \in ClassSet \cap DOMAIN MULT
  /\ \A r \in Reqs : req[r].model.trained => req[r].model.classes \subseteq DOMAIN MULT

\* a request trained a model on a file holding a label that a sweep of this
\* run assigned, and scored a line with it
C13_Witness ==
  \E r1, r2 \in Reqs :
    /\ r1 # r2
    /\ req[r1].pc = "done" /\ req[r1].method = "POST" /\ req[r1].refetch # {}
    /\ req[r2].model.trained /\ Scored(r2) # {}
    /\ \E e \in req[r1].refetch :
         e.i <= req[r2].nloaded /\ Labeled(req[r2].sha.blob[e.i])

\* C14: no row a request appended (and so scored and, on an accepted save,
\* stored) has a liquidity below the floor of 2500.
C14_LiquidityFloor ==
  /\ \A r \in Reqs : \A k \in Scored(r) : req[r].df[k].liquidity >= 2500
  /\ \A i \in 1..Len(storeRows) : storeRows[i].liquidity >= 2500

\* C15: a step that serves /backtest leaves the stored file as it was, issues
\* no fetch_dex call, labels no row of the frame it loaded and trains no model.
C15_BacktestReadOnly ==
  [][\A r \in Reqs :
       (req[r].pc = "idle" /\ req'[r].method = "BACKTEST") =>
         /\ storeExists' = storeExists
         /\ storeRows' = storeRows
         /\ fetchLog' = fetchLog
         /\ req'[r].refetch = {}
         /\ ~req'[r].model.trained
         /\ req'[r].pc = "done" => to_csv(req'[r].df) = storeRows]_vars

\* /backtest was served from a file holding a row that is due for a label,
\* once with enough rows for the correlation
C15_Witness ==
  \E r \in Reqs :
    /\ req[r].method = "BACKTEST" /\ req[r].pc = "done"
    /\ req[r].answer = "correlation"
    /\ Eligible(req[r].df, clock) # {}
    /\ to_csv(req[r].df) = storeRows

\* C16: a step in which a request fails (exception in the sweep, in a scoring
\* fetch, in load_csv or in save_csv) leaves the stored file exactly as it was.
C16_FailureKeepsPriorState ==
  [][\A r \in Reqs :
       (req[r].pc # "failed" /\ req'[r].pc = "failed") =>
         storeExists' = storeExists /\ storeRows' = storeRows]_vars

\* C16 (amended): the stored file changes only in the save step of a request,
\* to the whole DataFrame of that request; a request that fails anywhere but
\* in a PUT whose answer was lost leaves the file as it was.
C16_AllOrNothing ==
  [][/\ \A r \in Reqs :
          (req[r].pc # "failed" /\ req'[r].pc = "failed" /\ req'[r].err # "lost") =>
            storeExists' = storeExists /\ storeRows' = storeRows
     /\ (storeExists' # storeExists \/ storeRows' # storeRows) =>
          \E r \in Reqs :
            /\ req[r].pc = "score" /\ req'[r].pc \in {"done", "failed"}
            /\ storeExists'
            /\ storeRows' = to_csv(req[r].df)]_vars

\* a POST labeled a row, scored a line and failed in save_csv after the PUT
\* was committed: the file is its whole DataFrame
C16_Witness ==
  \E r \in Reqs :
    /\ req[r].pc = "failed" /\ req[r].err = "lost"
    /\ req[r].refetch # {} /\ Scored(r) # {}
    /\ storeExists /\ storeRows = to_csv(req[r].df)
    /\ storeRows # req[r].sha.blob

\* C17: every row of the stored file has label_outcome and mc_after_3d both
\* empty or both set, so the rows train_ml takes as labeled are the rows
\* backtest keeps.
C17_OutcomeFieldsTogether ==
  /\ \A i \in 1..Len(storeRows) :
       (storeRows[i].label_outcome = EMPTYSTR) <=> (storeRows[i].mc_after_3d = EMPTY)
  /\ LET df == read_csv(storeRows)
     IN {i \in 1..Len(df) : notna(df[i].label_outcome)} = bt_sample(df)

\* the file holds a row labeled by a sweep of this run whose re-fetch found
\* no pair, and a row scored in this run that has no label yet
C17_Witness ==
  \E r \in Reqs :
    /\ req[r].method = "POST" /\ req[r].pc \in {"done", "failed"}
    /\ Scored(r) # {}
    /\ storeRows = to_csv(req[r].df)
    /\ \E e \in req[r].refetch : e.kind = "none" /\ Labeled(storeRows[e.i])
    /\ \E k \in Scored(r) : ~Labeled(storeRows[k])

\* C18: the address auto_label passes to fetch_dex for a row is the address
\* index passed when the row was scored, which is the row's line stripped.
C18_SameIdentifier ==
  \A e \in fetchLog : e.ca = strip(e.ca)

\* C19: a POST for an address other than that of a row whose re-fetch raises
\* is not ended by that exception.
C19_SweepDoesNotBlockScoring ==
  \A r \in Reqs :
    (req[r].method = "POST" /\ req[r].pc = "failed") =>
      \A e \in req[r].refetch : \A k \in 1..Len(req[r].cas) :
        ~(e.kind = "err" /\ strip(req[r].cas[k]) # strip(req[r].df[e.i].ca))

\* C20: the "Labeled" figure of a completed GET or POST is the number of rows
\* of its DataFrame that carry a label; rows it appended itself carry none.
C20_LabeledCount ==
  \A r \in Reqs :
    (req[r].pc = "done" /\ req[r].method \in {"GET", "POST"}) =>
      req[r].lb = Cardinality({i \in 1..Len(req[r].df) : Labeled(req[r].df[i])})
====
